---- MODULE Spec2Model ----
(***************************************************************************)
(* LernifyRoad backend: the roadmap progress state machine of src/main.py. *)
(*                                                                         *)
(* The request handlers are synchronous functions served from a thread     *)
(* pool, so several run at once.  Every call on db.* is one atomic         *)
(* single-document operation; what a handler computes between two such     *)
(* calls is local to its thread.  A handler is therefore modelled as a     *)
(* thread that takes one step per database call.                           *)
(***************************************************************************)
EXTENDS Integers, Sequences, FiniteSets, TLC

(***************************************************************************)
(* Bounds of the model.                                                    *)
(***************************************************************************)
\* records the progress collection may hold (Spec / SeqSpec)
MaxRecords == 2
\* assessment submissions accepted in all, interleaved handlers (Spec)
MaxSubmits == 2
\* assessment submissions accepted in all, one handler at a time (SeqSpec)
MaxSeqSubmits == 2
\* assessment submissions accepted on the one record of DeepSpec
MaxDeepSubmits == 4
\* assessment submissions accepted on the one record of ScoreSpec
MaxScoreSubmits == 2

Threads == {"t1", "t2"}
Users == {"u1", "u2"}

(***************************************************************************)
(* Static domain roadmaps.                                                 *)
(***************************************************************************)
DEFAULT_ROADMAPS ==
    [d \in {"Frontend Development", "Backend Development", "AI & ML"} |->
        CASE d = "Frontend Development" -> <<"html-css", "js-fund", "react-basics">>
          [] d = "Backend Development"  -> <<"python-basics", "api-design", "database">>
          [] d = "AI & ML"              -> <<"py-numpy", "pandas-ml", "models">>]

ALLOWED_DOMAINS == DOMAIN DEFAULT_ROADMAPS

PASS_MARKS == 12

FINAL_PASS_MARKS == 60

\* AssessmentPayload.score: Field(..., ge=0, le=20)
MaxScore == 20

(***************************************************************************)
(* State.                                                                  *)
(*   store        db.roadmapprogress: the documents in insertion order; a  *)
(*                document's _id is its position                           *)
(*   userDomains  db.user: the "domains" field of each user document       *)
(*   pc, req, prog, resp   per handler thread: its position, its request,  *)
(*                the document find_one gave it, the response it returns   *)
(*   returned     per document, the submit_assessment calls that returned  *)
(***************************************************************************)
VARIABLES store, userDomains, pc, req, prog, resp, returned

vars == <<store, userDomains, pc, req, prog, resp, returned>>

NoReq == [op |-> "none"]
NoProg == [id |-> 0]
NoResp == [code |-> 0]

Range(f) == {f[x] : x \in DOMAIN f}

\* ids = [s["id"] for s in steps]
Ids(domain) == DEFAULT_ROADMAPS[domain]

\* ids.index(step_id), counted from 0 as in the source
IndexOf(ids, step_id) == (CHOOSE k \in 1..Len(ids) :
                            ids[k] = step_id /\ \A j \in 1..(k - 1) : ids[j] # step_id) - 1

\* as NewProgress, with one "locked" per step after the "unlocked"
NewProgressOneMore(user_id, domain) ==
    [user_id |-> user_id,
     domain |-> domain,
     current_step_index |-> 0,
     steps_status |-> <<"unlocked">> \o [k \in 1..Len(DEFAULT_ROADMAPS[domain]) |-> "locked"],
     results |-> <<>>,
     has_final |-> FALSE,
     final_score |-> 0,
     final_passed |-> FALSE]

\* the document select_domain inserts
NewProgress(user_id, domain) ==
    [user_id |-> user_id,
     domain |-> domain,
     current_step_index |-> 0,
     steps_status |-> <<"unlocked">> \o [k \in 1..(Len(DEFAULT_ROADMAPS[domain]) - 1) |-> "locked"],
     results |-> <<>>,
     has_final |-> FALSE,
     final_score |-> 0,
     final_passed |-> FALSE]

\* the documents find_one({"user_id": u, "domain": d}) can give: the query has
\* no sort, so with several matches any of them
Matches(user_id, domain) ==
    {i \in 1..Len(store) : store[i].user_id = user_id /\ store[i].domain = domain}

\* as Passed, with the pass mark one too low
PassedFromEleven(score) == score >= PASS_MARKS - 1

\* passed = payload.score >= PASS_MARKS
Passed(score) == score >= PASS_MARKS

\* as NewStepsStatus, but the next step is marked passed in place of unlocked
NewStepsStatusNextPassed(steps_status, step_index, passed) ==
    IF step_index < Len(steps_status)
    THEN LET marked == [steps_status EXCEPT
                            ![step_index + 1] = IF passed THEN "passed" ELSE "unlocked"]
         IN  IF passed /\ step_index + 1 < Len(steps_status)
             THEN [marked EXCEPT ![step_index + 2] = "passed"]
             ELSE marked
    ELSE steps_status

\* as NewStepsStatus, but a failed step is locked
NewStepsStatusFailLocks(steps_status, step_index, passed) ==
    IF step_index < Len(steps_status)
    THEN LET marked == [steps_status EXCEPT
                            ![step_index + 1] = IF passed THEN "passed" ELSE "locked"]
         IN  IF passed /\ step_index + 1 < Len(steps_status)
             THEN [marked EXCEPT ![step_index + 2] = "unlocked"]
             ELSE marked
    ELSE steps_status

\* as NewStepsStatus, but a next step that is already passed is left passed
NewStepsStatusKeepPassed(steps_status, step_index, passed) ==
    IF step_index < Len(steps_status)
    THEN LET marked == [steps_status EXCEPT
                            ![step_index + 1] = IF passed THEN "passed" ELSE "unlocked"]
         IN  IF passed /\ step_index + 1 < Len(steps_status)
                /\ steps_status[step_index + 2] # "passed"
             THEN [marked EXCEPT ![step_index + 2] = "unlocked"]
             ELSE marked
    ELSE steps_status

\* the steps_status submit_assessment writes back, from the one it read
NewStepsStatus(steps_status, step_index, passed) ==
    IF step_index < Len(steps_status)
    THEN LET marked == [steps_status EXCEPT
                            ![step_index + 1] = IF passed THEN "passed" ELSE "unlocked"]
         IN  IF passed /\ step_index + 1 < Len(steps_status)
             THEN [marked EXCEPT ![step_index + 2] = "unlocked"]
             ELSE marked
    ELSE steps_status

\* as NewCurrentStepIndex, without the comparison with the index read
NewCurrentStepIndexAlways(current_step_index, step_index, passed) ==
    IF passed
    THEN step_index + 1
    ELSE current_step_index

\* the current_step_index submit_assessment writes back, from the one it read
NewCurrentStepIndex(current_step_index, step_index, passed) ==
    IF passed /\ step_index >= current_step_index
    THEN step_index + 1
    ELSE current_step_index

\* as AllPassed, with any in place of all
AnyPassed(steps_status) == \E k \in 1..Len(steps_status) : steps_status[k] = "passed"

\* all(s == "passed" for s in prog.get("steps_status", []))
AllPassed(steps_status) == \A k \in 1..Len(steps_status) : steps_status[k] = "passed"

\* as FinalPassed, with the pass mark itself failing
FinalPassedAbove(score) == score > FINAL_PASS_MARKS

\* passed = score >= 60
FinalPassed(score) == score >= FINAL_PASS_MARKS

RECURSIVE SumResults(_)
SumResults(n) == IF n = 0 THEN 0 ELSE Len(store[n].results) + SumResults(n - 1)

\* submissions accepted so far: recorded, or read and about to be recorded
Submitted == SumResults(Len(store)) + Cardinality({t \in Threads : pc[t] = "sa_push"})

\* a raised HTTPException
Error(code, detail) == [code |-> code, detail |-> detail]

Init ==
    /\ store = <<>>
    /\ userDomains = [u \in Users |-> {}]
    /\ pc = [t \in Threads |-> "idle"]
    /\ req = [t \in Threads |-> NoReq]
    /\ prog = [t \in Threads |-> NoProg]
    /\ resp = [t \in Threads |-> NoResp]
    /\ returned = <<>>

(***************************************************************************)
(* POST /select-domain                                                     *)
(***************************************************************************)
\* the domain check and db.user.update_one($addToSet)
SelectBegin(t, user_id, domain) ==
    /\ pc[t] = "idle"
    /\ domain \in ALLOWED_DOMAINS =>
          \/ Matches(user_id, domain) # {}
          \/ Len(store) + Cardinality({x \in Threads : pc[x] \in {"sd_find", "sd_insert"}})
                < MaxRecords
    /\ IF domain \notin ALLOWED_DOMAINS
       THEN /\ resp' = [resp EXCEPT ![t] = Error(400, "Unknown domain")]
            /\ pc' = [pc EXCEPT ![t] = "ret"]
            /\ UNCHANGED userDomains
       ELSE /\ userDomains' = [userDomains EXCEPT ![user_id] = @ \cup {domain}]
            /\ pc' = [pc EXCEPT ![t] = "sd_find"]
            /\ UNCHANGED resp
    /\ req' = [req EXCEPT ![t] = [op |-> "select", user_id |-> user_id, domain |-> domain]]
    /\ UNCHANGED <<store, prog, returned>>

\* as SelectFind, but the insert follows whatever find_one gave
SelectFindIgnored(t) ==
    /\ pc[t] = "sd_find"
    /\ pc' = [pc EXCEPT ![t] = "sd_insert"]
    /\ UNCHANGED <<store, userDomains, req, prog, resp, returned>>

\* prog = db.roadmapprogress.find_one(...); if not prog: ...
SelectFind(t) ==
    /\ pc[t] = "sd_find"
    /\ IF Matches(req[t].user_id, req[t].domain) # {}
       THEN /\ resp' = [resp EXCEPT ![t] = [code |-> 200, status |-> "ok"]]
            /\ pc' = [pc EXCEPT ![t] = "ret"]
       ELSE /\ pc' = [pc EXCEPT ![t] = "sd_insert"]
            /\ UNCHANGED resp
    /\ UNCHANGED <<store, userDomains, req, prog, returned>>

\* db.roadmapprogress.insert_one({...})
SelectInsert(t) ==
    /\ pc[t] = "sd_insert"
    /\ store' = Append(store, NewProgress(req[t].user_id, req[t].domain))
    /\ returned' = Append(returned, 0)
    /\ resp' = [resp EXCEPT ![t] = [code |-> 200, status |-> "ok"]]
    /\ pc' = [pc EXCEPT ![t] = "ret"]
    /\ UNCHANGED <<userDomains, req, prog>>

(***************************************************************************)
(* POST /assessment/submit                                                 *)
(***************************************************************************)
\* as SubmitBegin, but the record is looked up before the step id is checked
SubmitBeginRecordFirst(t, user_id, domain, step_id, score, budget) ==
    /\ pc[t] = "idle"
    /\ IF domain \notin ALLOWED_DOMAINS
       THEN /\ resp' = [resp EXCEPT ![t] = Error(400, "Unknown domain")]
            /\ pc' = [pc EXCEPT ![t] = "ret"]
            /\ UNCHANGED prog
       ELSE IF Matches(user_id, domain) = {}
       THEN /\ resp' = [resp EXCEPT ![t] =
                            Error(400, "Progress not initialized. Select domain first.")]
            /\ pc' = [pc EXCEPT ![t] = "ret"]
            /\ UNCHANGED prog
       ELSE IF step_id \notin Range(Ids(domain))
       THEN /\ resp' = [resp EXCEPT ![t] = Error(400, "Unknown step")]
            /\ pc' = [pc EXCEPT ![t] = "ret"]
            /\ UNCHANGED prog
       ELSE /\ Submitted < budget
            /\ \E i \in Matches(user_id, domain) :
                  prog' = [prog EXCEPT ![t] = [id |-> i, doc |-> store[i]]]
            /\ pc' = [pc EXCEPT ![t] = "sa_push"]
            /\ UNCHANGED resp
    /\ req' = [req EXCEPT ![t] = [op |-> "submit", user_id |-> user_id,
                                   domain |-> domain, step_id |-> step_id,
                                   score |-> score, passed |-> Passed(score)]]
    /\ UNCHANGED <<store, userDomains, returned>>

\* the domain and step checks and prog = db.roadmapprogress.find_one(...)
SubmitBegin(t, user_id, domain, step_id, score, budget) ==
    /\ pc[t] = "idle"
    /\ IF domain \notin ALLOWED_DOMAINS
       THEN /\ resp' = [resp EXCEPT ![t] = Error(400, "Unknown domain")]
            /\ pc' = [pc EXCEPT ![t] = "ret"]
            /\ UNCHANGED prog
       ELSE IF step_id \notin Range(Ids(domain))
       THEN /\ resp' = [resp EXCEPT ![t] = Error(400, "Unknown step")]
            /\ pc' = [pc EXCEPT ![t] = "ret"]
            /\ UNCHANGED prog
       ELSE IF Matches(user_id, domain) = {}
       THEN /\ resp' = [resp EXCEPT ![t] =
                            Error(400, "Progress not initialized. Select domain first.")]
            /\ pc' = [pc EXCEPT ![t] = "ret"]
            /\ UNCHANGED prog
       ELSE /\ Submitted < budget
            /\ \E i \in Matches(user_id, domain) :
                  prog' = [prog EXCEPT ![t] = [id |-> i, doc |-> store[i]]]
            /\ pc' = [pc EXCEPT ![t] = "sa_push"]
            /\ UNCHANGED resp
    /\ req' = [req EXCEPT ![t] = [op |-> "submit", user_id |-> user_id,
                                   domain |-> domain, step_id |-> step_id,
                                   score |-> score, passed |-> Passed(score)]]
    /\ UNCHANGED <<store, userDomains, returned>>

\* db.roadmapprogress.update_one({"_id": prog["_id"]}, {"$push": {"results": result}})
SubmitPush(t) ==
    /\ pc[t] = "sa_push"
    /\ store' = [store EXCEPT ![prog[t].id].results =
                    Append(@, [domain |-> req[t].domain, step_id |-> req[t].step_id,
                               score |-> req[t].score, passed |-> req[t].passed])]
    /\ pc' = [pc EXCEPT ![t] = "sa_set"]
    /\ UNCHANGED <<userDomains, req, prog, resp, returned>>

\* as SubmitSet, but the $set is filtered by user_id in place of _id
SubmitSetByUser(t) ==
    /\ pc[t] = "sa_set"
    /\ LET step_index == IndexOf(Ids(req[t].domain), req[t].step_id)
       IN  store' = [j \in 1..Len(store) |->
                IF store[j].user_id = req[t].user_id
                THEN [store[j] EXCEPT
                        !.steps_status =
                            NewStepsStatus(prog[t].doc.steps_status, step_index, req[t].passed),
                        !.current_step_index =
                            NewCurrentStepIndex(prog[t].doc.current_step_index, step_index,
                                                req[t].passed)]
                ELSE store[j]]
    /\ resp' = [resp EXCEPT ![t] = [code |-> 200, passed |-> req[t].passed, score |-> req[t].score]]
    /\ returned' = [returned EXCEPT ![prog[t].id] = @ + 1]
    /\ pc' = [pc EXCEPT ![t] = "ret"]
    /\ UNCHANGED <<userDomains, req, prog>>

\* as SubmitSet, but results is written back with the rest, from the document read
SubmitSetWithResults(t) ==
    /\ pc[t] = "sa_set"
    /\ LET step_index == IndexOf(Ids(req[t].domain), req[t].step_id)
       IN  store' = [store EXCEPT
                ![prog[t].id].results =
                    Append(prog[t].doc.results,
                           [domain |-> req[t].domain, step_id |-> req[t].step_id,
                            score |-> req[t].score, passed |-> req[t].passed]),
                ![prog[t].id].steps_status =
                    NewStepsStatus(prog[t].doc.steps_status, step_index, req[t].passed),
                ![prog[t].id].current_step_index =
                    NewCurrentStepIndex(prog[t].doc.current_step_index, step_index, req[t].passed)]
    /\ resp' = [resp EXCEPT ![t] = [code |-> 200, passed |-> req[t].passed, score |-> req[t].score]]
    /\ returned' = [returned EXCEPT ![prog[t].id] = @ + 1]
    /\ pc' = [pc EXCEPT ![t] = "ret"]
    /\ UNCHANGED <<userDomains, req, prog>>

\* db.roadmapprogress.update_one({"_id": prog["_id"]}, {"$set": {"steps_status": ...,
\* "current_step_index": ...}}) and the return
SubmitSet(t) ==
    /\ pc[t] = "sa_set"
    /\ LET step_index == IndexOf(Ids(req[t].domain), req[t].step_id)
       IN  store' = [store EXCEPT
                ![prog[t].id].steps_status =
                    NewStepsStatus(prog[t].doc.steps_status, step_index, req[t].passed),
                ![prog[t].id].current_step_index =
                    NewCurrentStepIndex(prog[t].doc.current_step_index, step_index, req[t].passed)]
    /\ resp' = [resp EXCEPT ![t] = [code |-> 200, passed |-> req[t].passed, score |-> req[t].score]]
    /\ returned' = [returned EXCEPT ![prog[t].id] = @ + 1]
    /\ pc' = [pc EXCEPT ![t] = "ret"]
    /\ UNCHANGED <<userDomains, req, prog>>

(***************************************************************************)
(* POST /assessment/final/{domain}                                         *)
(***************************************************************************)
\* the domain check, prog = db.roadmapprogress.find_one(...) and the all-passed check
FinalBegin(t, user_id, domain, score) ==
    /\ pc[t] = "idle"
    /\ IF domain \notin ALLOWED_DOMAINS
       THEN /\ resp' = [resp EXCEPT ![t] = Error(400, "Unknown domain")]
            /\ pc' = [pc EXCEPT ![t] = "ret"]
            /\ UNCHANGED prog
       ELSE IF Matches(user_id, domain) = {}
       THEN /\ resp' = [resp EXCEPT ![t] = Error(400, "No progress for domain")]
            /\ pc' = [pc EXCEPT ![t] = "ret"]
            /\ UNCHANGED prog
       ELSE \E i \in Matches(user_id, domain) :
               IF ~AllPassed(store[i].steps_status)
               THEN /\ resp' = [resp EXCEPT ![t] =
                                    Error(400, "Complete all steps before final assessment")]
                    /\ pc' = [pc EXCEPT ![t] = "ret"]
                    /\ UNCHANGED prog
               ELSE /\ prog' = [prog EXCEPT ![t] = [id |-> i, doc |-> store[i]]]
                    /\ pc' = [pc EXCEPT ![t] = "fa_update"]
                    /\ UNCHANGED resp
    /\ req' = [req EXCEPT ![t] = [op |-> "final", user_id |-> user_id,
                                   domain |-> domain, score |-> score,
                                   passed |-> FinalPassed(score)]]
    /\ UNCHANGED <<store, userDomains, returned>>

\* db.roadmapprogress.update_one({"_id": prog["_id"]}, {"$set": {"final_score": score,
\* "final_passed": passed}}) and the return
FinalUpdate(t) ==
    /\ pc[t] = "fa_update"
    /\ store' = [store EXCEPT ![prog[t].id].has_final = TRUE,
                              ![prog[t].id].final_score = req[t].score,
                              ![prog[t].id].final_passed = req[t].passed]
    /\ resp' = [resp EXCEPT ![t] = [code |-> 200, passed |-> req[t].passed, score |-> req[t].score]]
    /\ pc' = [pc EXCEPT ![t] = "ret"]
    /\ UNCHANGED <<userDomains, req, prog, returned>>

(***************************************************************************)
(* GET /progress/{domain}                                                  *)
(***************************************************************************)
GetProgress(t, user_id, domain) ==
    /\ pc[t] = "idle"
    /\ IF Matches(user_id, domain) = {}
       THEN resp' = [resp EXCEPT ![t] = Error(404, "No progress yet for this domain")]
       ELSE \E i \in Matches(user_id, domain) :
               resp' = [resp EXCEPT ![t] = [code |-> 200, id |-> i, doc |-> store[i]]]
    /\ pc' = [pc EXCEPT ![t] = "ret"]
    /\ UNCHANGED <<store, userDomains, req, prog, returned>>

(***************************************************************************)
(* GET /dashboard/progress                                                 *)
(***************************************************************************)
\* as CountPassed, counting every step that is not locked
CountNotLocked(steps_status) ==
    Cardinality({k \in 1..Len(steps_status) : steps_status[k] # "locked"})

\* sum(1 for s in p.get("steps_status", []) if s == "passed")
CountPassed(steps_status) ==
    Cardinality({k \in 1..Len(steps_status) : steps_status[k] = "passed"})

\* int(passed*100/total): the quotient of two non-negative integers, cut to an integer
Percent(passed, total) == (passed * 100) \div total

\* the item the dashboard appends for one progress document
DashboardItem(p) ==
    LET total == Len(DEFAULT_ROADMAPS[p.domain])
        passed == CountPassed(p.steps_status)
    IN  [domain |-> p.domain, completed |-> passed, total |-> total,
         percent |-> Percent(passed, total)]

\* progs = list(db.roadmapprogress.find({"user_id": ...}))
ProgressOf(user_id) == SelectSeq(store, LAMBDA p : p.user_id = user_id)

Dashboard(t, user_id) ==
    /\ pc[t] = "idle"
    /\ LET progs == ProgressOf(user_id)
       IN  resp' = [resp EXCEPT ![t] =
                [code |-> 200, items |-> [k \in 1..Len(progs) |-> DashboardItem(progs[k])]]]
    /\ req' = [req EXCEPT ![t] = [op |-> "dashboard", user_id |-> user_id]]
    /\ pc' = [pc EXCEPT ![t] = "ret"]
    /\ UNCHANGED <<store, userDomains, prog, returned>>

(***************************************************************************)
(* The response leaves the handler; the thread serves the next request.    *)
(***************************************************************************)
Reply(t) ==
    /\ pc[t] = "ret"
    /\ pc' = [pc EXCEPT ![t] = "idle"]
    /\ req' = [req EXCEPT ![t] = NoReq]
    /\ prog' = [prog EXCEPT ![t] = NoProg]
    /\ resp' = [resp EXCEPT ![t] = NoResp]
    /\ UNCHANGED <<store, userDomains, returned>>

(***************************************************************************)
(* Requests.                                                               *)
(***************************************************************************)
UNKNOWN_DOMAIN == "Data Science"
UNKNOWN_STEP == "no-such-step"

\* the step ids a request for a domain is made with
ReqSteps(domain) ==
    IF domain \in ALLOWED_DOMAINS THEN Range(Ids(domain)) \cup {UNKNOWN_STEP} ELSE {UNKNOWN_STEP}

FE == "Frontend Development"
BE == "Backend Development"

\* interleaved handlers on the record of one user and domain
Next ==
    \E t \in Threads :
        \/ \E d \in {FE, UNKNOWN_DOMAIN} : SelectBegin(t, "u1", d)
        \/ SelectFind(t)
        \/ SelectInsert(t)
        \/ \E s \in ReqSteps(FE), score \in {11, 12} :
              SubmitBegin(t, "u1", FE, s, score, MaxSubmits)
        \/ SubmitPush(t)
        \/ SubmitSet(t)
        \/ GetProgress(t, "u1", FE)
        \/ Reply(t)

Spec == Init /\ [][Next]_vars

\* one handler at a time, several users and domains
NextSeq ==
    \/ \E u \in Users, d \in {FE, BE, UNKNOWN_DOMAIN} : SelectBegin("t1", u, d)
    \/ SelectFind("t1")
    \/ SelectInsert("t1")
    \/ \E u \in Users, d \in {FE, BE, UNKNOWN_DOMAIN} : \E s \in ReqSteps(d), score \in {11, 12} :
          SubmitBegin("t1", u, d, s, score, MaxSeqSubmits)
    \/ SubmitPush("t1")
    \/ SubmitSet("t1")
    \/ \E u \in Users, d \in {FE, BE, UNKNOWN_DOMAIN} : GetProgress("t1", u, d)
    \/ Reply("t1")

SeqSpec == Init /\ [][NextSeq]_vars

\* one handler at a time on one record, long runs up to the final assessment
NextDeep ==
    \/ SelectBegin("t1", "u1", FE)
    \/ SelectFind("t1")
    \/ SelectInsert("t1")
    \/ \E s \in Range(Ids(FE)), score \in {5, 15, 18} :
          SubmitBegin("t1", "u1", FE, s, score, MaxDeepSubmits)
    \/ SubmitPush("t1")
    \/ SubmitSet("t1")
    \/ \E score \in {59, 60} : FinalBegin("t1", "u1", FE, score)
    \/ FinalUpdate("t1")
    \/ Dashboard("t1", "u1")
    \/ Reply("t1")

DeepSpec == Init /\ [][NextDeep]_vars

\* one handler at a time on one record, every score a payload can carry
NextScore ==
    \/ SelectBegin("t1", "u1", FE)
    \/ SelectFind("t1")
    \/ SelectInsert("t1")
    \/ \E s \in Range(Ids(FE)), score \in 0..MaxScore :
          SubmitBegin("t1", "u1", FE, s, score, MaxScoreSubmits)
    \/ SubmitPush("t1")
    \/ SubmitSet("t1")
    \/ Reply("t1")

ScoreSpec == Init /\ [][NextScore]_vars

(***************************************************************************)
(* Properties.                                                             *)
(***************************************************************************)
Records == 1..Len(store)

\* the position, from 0, of the step a thread's submission is for
StepIndex(t) == IndexOf(Ids(req[t].domain), req[t].step_id)

\* thread t takes the last step of a submit_assessment call on document i
SubmitReturns(t, i) ==
    pc[t] = "sa_set" /\ pc'[t] = "ret" /\ prog[t].id = i

\* the steps_status and current_step_index of a record after one submission
\* runs on it alone
After(state, result) ==
    LET k == IndexOf(Ids(result.domain), result.step_id)
    IN  [steps_status |-> NewStepsStatus(state.steps_status, k, result.passed),
         current_step_index |-> NewCurrentStepIndex(state.current_step_index, k, result.passed)]

StateOf(doc) ==
    [steps_status |-> doc.steps_status, current_step_index |-> doc.current_step_index]

\* the last recorded result of a document has had its effect on steps_status
LastResultApplied(doc) ==
    Len(doc.results) > 0 =>
        LET r == doc.results[Len(doc.results)]
        IN  doc.steps_status[IndexOf(Ids(r.domain), r.step_id) + 1] =
                IF r.passed THEN "passed" ELSE "unlocked"

\* C1: a submission for a step whose recorded state is locked is rejected: no
\* handler gets past its checks, to the $push and the $set, with a request for a
\* step that is locked in the document it read.
C1_LockedStepRejected ==
    \A t \in Threads :
        pc[t] \in {"sa_push", "sa_set"} =>
            prog[t].doc.steps_status[StepIndex(t) + 1] # "locked"

\* C2: every step after the first moves only locked -> unlocked -> passed: it
\* leaves locked only to unlocked and only when the step before it is passed, it
\* leaves unlocked only to passed, and it never leaves passed.
C2_StepStatesOnlyAdvance ==
    [][\A i \in Records : \A k \in 2..Len(store[i].steps_status) :
          LET old == store[i].steps_status[k]
              new == store'[i].steps_status[k]
          IN  /\ old = "locked" => new \in {"locked", "unlocked"}
              /\ (old = "locked" /\ new = "unlocked") =>
                    store'[i].steps_status[k - 1] = "passed"
              /\ old = "unlocked" => new \in {"unlocked", "passed"}
              /\ old = "passed" => new = "passed"]_vars

\* C3: once two submissions for different steps of one fresh record have both
\* returned, the record holds both results and its steps_status and
\* current_step_index are those of the two run one after the other, in one order
\* or the other.
C3_NoLostUpdate ==
    \A i \in Records :
        (returned[i] = 2 /\ \A t \in Threads : pc[t] \in {"sa_push", "sa_set"} => prog[t].id # i) =>
            /\ Len(store[i].results) = 2
            /\ LET a == store[i].results[1]
                   b == store[i].results[2]
                   fresh == StateOf(NewProgress(store[i].user_id, store[i].domain))
               IN  a.step_id # b.step_id =>
                      StateOf(store[i]) \in {After(After(fresh, a), b), After(After(fresh, b), a)}

\* C4: no reader sees a submission half done: in every document GET /progress
\* returns, the last recorded result has had its effect on steps_status.
C4_NoPartialSubmission ==
    \A t \in Threads :
        (pc[t] = "ret" /\ resp[t].code = 200 /\ "doc" \in DOMAIN resp[t]) =>
            LastResultApplied(resp[t].doc)

\* C5: select-domain is idempotent: a call that finds a record of its user and
\* domain leaves the collection as it is, with that one record; a call that finds
\* none adds one record, with current_step_index 0, the first step unlocked and
\* the others locked, one entry per step of the domain, and no results.
C5_SelectIdempotent ==
    [][\A t \in Threads :
          (pc[t] \in {"sd_find", "sd_insert"} /\ pc'[t] = "ret") =>
              LET u == req[t].user_id
                  d == req[t].domain
                  n == Len(DEFAULT_ROADMAPS[d])
              IN  IF Matches(u, d) # {}
                  THEN /\ store' = store
                       /\ Cardinality(Matches(u, d)) = 1
                  ELSE /\ Len(store') = Len(store) + 1
                       /\ \A i \in Records : store'[i] = store[i]
                       /\ store'[Len(store')].user_id = u
                       /\ store'[Len(store')].domain = d
                       /\ store'[Len(store')].current_step_index = 0
                       /\ store'[Len(store')].steps_status =
                             [k \in 1..n |-> IF k = 1 THEN "unlocked" ELSE "locked"]
                       /\ store'[Len(store')].results = <<>>
                       /\ Cardinality(Matches(u, d)') = 1]_vars

\* a second select-domain has returned for a record that already holds results
C5_Witness ==
    /\ pc["t1"] = "ret"
    /\ req["t1"].op = "select"
    /\ \E i \in Matches(req["t1"].user_id, req["t1"].domain) : Len(store[i].results) = 2

\* C6: the collection holds at most one progress record per user and domain.
C6_OneRecordPerPair ==
    \A u \in Users, d \in ALLOWED_DOMAINS : Cardinality(Matches(u, d)) <= 1

\* C7: with one handler at a time, current_step_index never decreases; a
\* submission that passed for a step at or past it sets it to that step's index
\* plus one, any other submission leaves it, and nothing else changes it.
C7_CurrentStepIndexSequential ==
    [][\A i \in Records :
          LET old == store[i].current_step_index
              new == store'[i].current_step_index
          IN  /\ new >= old
              /\ \A t \in Threads :
                    SubmitReturns(t, i) =>
                        new = IF req[t].passed /\ StepIndex(t) >= old
                              THEN StepIndex(t) + 1
                              ELSE old
              /\ new # old => \E t \in Threads : SubmitReturns(t, i)]_vars

\* a passed submission for a step before current_step_index has returned
C7_Witness ==
    /\ pc["t1"] = "ret"
    /\ req["t1"].op = "submit"
    /\ resp["t1"].code = 200
    /\ req["t1"].passed
    /\ store[prog["t1"].id].current_step_index > StepIndex("t1") + 1

\* C8: current_step_index of a record never decreases from one stored state to
\* the next, however the handlers interleave.
C8_CurrentStepIndexInterleaved ==
    [][\A i \in Records :
          store'[i].current_step_index >= store[i].current_step_index]_vars

\* C9: results only grows by appending; it holds one entry per submission that
\* returned, plus one per submission that has pushed and not yet returned; each
\* entry has passed = (score >= 12).
C9_ResultsAppendOnly ==
    [][\A i \in Records :
          /\ Len(store'[i].results) >= Len(store[i].results)
          /\ SubSeq(store'[i].results, 1, Len(store[i].results)) = store[i].results
          /\ Len(store'[i].results) =
                returned'[i] + Cardinality({t \in Threads : pc'[t] = "sa_set" /\ prog'[t].id = i})
          /\ (\A t \in Threads : pc'[t] \notin {"sa_push", "sa_set"} \/ prog'[t].id # i) =>
                Len(store'[i].results) = returned'[i]
          /\ \A k \in 1..Len(store'[i].results) :
                store'[i].results[k].passed = (store'[i].results[k].score >= 12)]_vars

\* two submissions that both read the record before either wrote have returned
C9_Witness ==
    /\ \A t \in Threads :
          pc[t] = "ret" /\ req[t].op = "submit" /\ prog[t].id = 1 /\ prog[t].doc.results = <<>>
    /\ Len(store[1].results) = 2
    /\ returned[1] = 2

\* C10: a submission with a score in 12..20 returns passed = true, and when it
\* returns the submitted step is passed and the step after it, if any, unlocked.
C10_PassingScore ==
    [][\A t \in Threads : \A i \in Records :
          (SubmitReturns(t, i) /\ req[t].score \in 12..20) =>
              /\ resp'[t].code = 200
              /\ resp'[t].passed = TRUE
              /\ resp'[t].score = req[t].score
              /\ store'[i].steps_status[StepIndex(t) + 1] = "passed"
              /\ StepIndex(t) + 2 <= Len(store'[i].steps_status) =>
                    store'[i].steps_status[StepIndex(t) + 2] = "unlocked"]_vars

\* a score of 12 on the first step has returned passed, and the second step,
\* passed before, is unlocked
C10_Witness ==
    /\ pc["t1"] = "ret"
    /\ req["t1"].op = "submit"
    /\ resp["t1"].code = 200
    /\ req["t1"].score = 12
    /\ resp["t1"].passed
    /\ StepIndex("t1") = 0
    /\ Len(store[1].results) = 2
    /\ store[1].results[1].step_id = "js-fund"
    /\ store[1].results[1].passed
    /\ store[1].steps_status = <<"passed", "unlocked", "unlocked">>

\* C11: a submission with a score in 0..11 returns passed = false, and when it
\* returns the submitted step is unlocked, and the step after it and
\* current_step_index are as they were.
C11_FailingScore ==
    [][\A t \in Threads : \A i \in Records :
          (SubmitReturns(t, i) /\ req[t].score \in 0..11) =>
              /\ resp'[t].code = 200
              /\ resp'[t].passed = FALSE
              /\ resp'[t].score = req[t].score
              /\ store'[i].steps_status[StepIndex(t) + 1] = "unlocked"
              /\ StepIndex(t) + 2 <= Len(store[i].steps_status) =>
                    store'[i].steps_status[StepIndex(t) + 2] = store[i].steps_status[StepIndex(t) + 2]
              /\ store'[i].current_step_index = store[i].current_step_index]_vars

\* a score of 11 on the second step, passed before, has returned not passed,
\* and the step is unlocked
C11_Witness ==
    /\ pc["t1"] = "ret"
    /\ req["t1"].op = "submit"
    /\ resp["t1"].code = 200
    /\ req["t1"].score = 11
    /\ ~resp["t1"].passed
    /\ StepIndex("t1") = 1
    /\ Len(store[1].results) = 2
    /\ store[1].results[1].step_id = "js-fund"
    /\ store[1].results[1].passed
    /\ store[1].steps_status = <<"unlocked", "unlocked", "unlocked">>
    /\ store[1].current_step_index = 2

\* C12: the final assessment is refused, with the record as it was, unless every
\* step is passed; when every step is passed it returns and stores
\* passed = (score >= 60), so 60 passes and 59 does not, whatever final result
\* the record held before; nothing else writes the final result.
C12_FinalAssessment ==
    [][\A t \in Threads :
          /\ (pc[t] = "idle" /\ req'[t].op = "final" /\ req'[t].domain \in ALLOWED_DOMAINS) =>
                \A i \in Matches(req'[t].user_id, req'[t].domain) :
                    IF AllPassed(store[i].steps_status)
                    THEN pc'[t] = "fa_update" /\ store' = store
                    ELSE /\ pc'[t] = "ret"
                         /\ resp'[t] = Error(400, "Complete all steps before final assessment")
                         /\ store' = store
          /\ (pc[t] = "fa_update" /\ pc'[t] = "ret") =>
                LET i == prog[t].id
                IN  /\ resp'[t].code = 200
                    /\ resp'[t].score = req[t].score
                    /\ resp'[t].passed = (req[t].score >= 60)
                    /\ store' = [store EXCEPT ![i].has_final = TRUE,
                                              ![i].final_score = req[t].score,
                                              ![i].final_passed = (req[t].score >= 60)]
          /\ \A i \in Records :
                (<<store'[i].has_final, store'[i].final_score, store'[i].final_passed>>
                    # <<store[i].has_final, store[i].final_score, store[i].final_passed>>) =>
                    \E x \in Threads : pc[x] = "fa_update" /\ pc'[x] = "ret" /\ prog[x].id = i]_vars

\* a final assessment of 59 has returned not passed on a record that held a
\* passed final result of 60
C12_Witness ==
    /\ pc["t1"] = "ret"
    /\ req["t1"].op = "final"
    /\ resp["t1"].code = 200
    /\ req["t1"].score = 59
    /\ ~resp["t1"].passed
    /\ prog["t1"].doc.has_final
    /\ prog["t1"].doc.final_score = 60
    /\ prog["t1"].doc.final_passed
    /\ store[1].final_score = 59
    /\ ~store[1].final_passed

\* C13: a submission with an unknown domain, else with a step id that is not in
\* the domain's roadmap, else for a user and domain with no progress record, is
\* refused with "Unknown domain", "Unknown step" and "Progress not initialized"
\* in that order, and the collection is as it was: no record added, no result
\* appended; any other submission is taken up.
C13_SubmitErrors ==
    [][\A t \in Threads :
          (pc[t] = "idle" /\ req'[t].op = "submit") =>
              LET r == req'[t]
              IN  /\ store' = store
                  /\ returned' = returned
                  /\ IF r.domain \notin {"Frontend Development", "Backend Development", "AI & ML"}
                     THEN pc'[t] = "ret" /\ resp'[t] = [code |-> 400, detail |-> "Unknown domain"]
                     ELSE IF \A k \in 1..Len(DEFAULT_ROADMAPS[r.domain]) :
                                DEFAULT_ROADMAPS[r.domain][k] # r.step_id
                     THEN pc'[t] = "ret" /\ resp'[t] = [code |-> 400, detail |-> "Unknown step"]
                     ELSE IF \A i \in Records :
                                store[i].user_id # r.user_id \/ store[i].domain # r.domain
                     THEN /\ pc'[t] = "ret"
                          /\ resp'[t] = [code |-> 400,
                                         detail |-> "Progress not initialized. Select domain first."]
                     ELSE pc'[t] = "sa_push" /\ resp'[t] = NoResp]_vars

\* a submission with an unknown step id, for a user and domain with no record,
\* has been refused with "Unknown step" while another user's record holds results
C13_Witness ==
    /\ pc["t1"] = "ret"
    /\ req["t1"].op = "submit"
    /\ req["t1"].user_id = "u2"
    /\ req["t1"].domain = "Backend Development"
    /\ req["t1"].step_id = "no-such-step"
    /\ resp["t1"] = [code |-> 400, detail |-> "Unknown step"]
    /\ Len(store) = 1
    /\ store[1].user_id = "u1"
    /\ Len(store[1].results) = 1

\* C14: the first step of every progress record is unlocked or passed, in every
\* state, however the handlers interleave.
C14_FirstStepNeverLocked ==
    \A i \in Records : store[i].steps_status[1] \in {"unlocked", "passed"}

\* the second and third steps have been passed, the first has not
C14_Witness ==
    \E i \in Records :
        /\ returned[i] = 2
        /\ \A k \in 1..2 : store[i].results[k].step_id # "html-css" /\ store[i].results[k].passed
        /\ store[i].results[1].step_id # store[i].results[2].step_id
        /\ store[i].steps_status[1] = "unlocked"

\* C15: steps_status of every progress record has one entry per step of its
\* domain's roadmap, in every state, and every entry is locked, unlocked or passed.
C15_StepsStatusShape ==
    \A i \in Records :
        /\ Len(store[i].steps_status) = Len(DEFAULT_ROADMAPS[store[i].domain])
        /\ \A k \in 1..Len(store[i].steps_status) :
              store[i].steps_status[k] \in {"locked", "unlocked", "passed"}

\* a record after four submissions and a stored final assessment
C15_Witness ==
    \E i \in Records :
        /\ Len(store[i].results) = 4
        /\ returned[i] = 4
        /\ store[i].has_final
        /\ Len(store[i].steps_status) = 3

\* the submissions of the scenario, as recorded
ScenarioStep0With15 ==
    [domain |-> "Frontend Development", step_id |-> "html-css", score |-> 15, passed |-> TRUE]
ScenarioStep1With5 ==
    [domain |-> "Frontend Development", step_id |-> "js-fund", score |-> 5, passed |-> FALSE]
ScenarioStep1With18 ==
    [domain |-> "Frontend Development", step_id |-> "js-fund", score |-> 18, passed |-> TRUE]

\* C16: the Frontend Development scenario: after select-domain the steps are
\* [unlocked, locked, locked]; step 0 with 15 returns passed and gives
\* [passed, unlocked, locked] and current_step_index 1; step 1 with 5 then returns
\* not passed and changes neither; step 1 with 18 then returns passed and gives
\* [passed, passed, unlocked] and current_step_index 2; a final assessment then is
\* refused for incomplete steps and stores nothing.
C16_Scenario ==
    \A i \in Records :
        LET doc == store[i]
            settled == returned[i] = Len(doc.results)
            returnedBy(t) == pc[t] = "ret" /\ req[t].op = "submit" /\ resp[t].code = 200
                                /\ prog[t].id = i
        IN  /\ doc.results = <<>> =>
                  doc.steps_status = <<"unlocked", "locked", "locked">>
                     /\ doc.current_step_index = 0
            /\ (settled /\ doc.results = <<ScenarioStep0With15>>) =>
                  /\ doc.steps_status = <<"passed", "unlocked", "locked">>
                  /\ doc.current_step_index = 1
                  /\ \A t \in Threads : returnedBy(t) => resp[t].passed = TRUE /\ resp[t].score = 15
            /\ (settled /\ doc.results = <<ScenarioStep0With15, ScenarioStep1With5>>) =>
                  /\ doc.steps_status = <<"passed", "unlocked", "locked">>
                  /\ doc.current_step_index = 1
                  /\ \A t \in Threads : returnedBy(t) => resp[t].passed = FALSE /\ resp[t].score = 5
            /\ (settled /\ doc.results =
                    <<ScenarioStep0With15, ScenarioStep1With5, ScenarioStep1With18>>) =>
                  /\ doc.steps_status = <<"passed", "passed", "unlocked">>
                  /\ doc.current_step_index = 2
                  /\ \A t \in Threads : returnedBy(t) => resp[t].passed = TRUE /\ resp[t].score = 18
                  /\ ~doc.has_final
                  /\ \A t \in Threads :
                        req[t].op = "final" =>
                            /\ pc[t] = "ret"
                            /\ resp[t] = [code |-> 400,
                                          detail |-> "Complete all steps before final assessment"]

\* the final assessment at the end of the scenario has been refused
C16_Witness ==
    /\ Len(store) = 1
    /\ store[1].results = <<ScenarioStep0With15, ScenarioStep1With5, ScenarioStep1With18>>
    /\ returned[1] = 3
    /\ pc["t1"] = "ret"
    /\ req["t1"].op = "final"
    /\ resp["t1"].code = 400

\* C17: the dashboard returns one item per progress record of the user, in
\* order, with completed the number of passed steps, total the number of steps
\* of the domain and percent the floor of completed * 100 / total, so
\* 0 <= completed <= total and 0 <= percent <= 100; it changes nothing stored.
C17_Dashboard ==
    [][\A t \in Threads :
          (pc[t] = "idle" /\ req'[t].op = "dashboard") =>
              LET mine == SelectSeq(store, LAMBDA p : p.user_id = req'[t].user_id)
                  items == resp'[t].items
              IN  /\ pc'[t] = "ret"
                  /\ resp'[t].code = 200
                  /\ store' = store
                  /\ userDomains' = userDomains
                  /\ Len(items) = Len(mine)
                  /\ \A k \in 1..Len(mine) :
                        LET completed == Cardinality({j \in 1..Len(mine[k].steps_status) :
                                                        mine[k].steps_status[j] = "passed"})
                            total == Len(mine[k].steps_status)
                        IN  /\ items[k].domain = mine[k].domain
                            /\ items[k].completed = completed
                            /\ items[k].total = total
                            /\ items[k].percent * total <= completed * 100
                            /\ completed * 100 < (items[k].percent + 1) * total
                            /\ 0 <= items[k].completed /\ items[k].completed <= items[k].total
                            /\ 0 <= items[k].percent /\ items[k].percent <= 100]_vars

\* the dashboard has returned 66 percent for a record with two of three steps
\* passed
C17_Witness ==
    /\ pc["t1"] = "ret"
    /\ req["t1"].op = "dashboard"
    /\ Len(resp["t1"].items) = 1
    /\ resp["t1"].items[1] = [domain |-> "Frontend Development", completed |-> 2,
                              total |-> 3, percent |-> 66]
    /\ store[1].steps_status = <<"passed", "unlocked", "passed">>

\* C18: a record that holds a final result has every step passed, in every
\* state.
C18_FinalKeepsAllPassed ==
    \A i \in Records :
        store[i].has_final =>
            \A k \in 1..Len(store[i].steps_status) : store[i].steps_status[k] = "passed"

C20_PassedHasPassingResult ==
    \A i \in Records : \A k \in 1..Len(store[i].steps_status) :
        store[i].steps_status[k] = "passed" =>
            \E j \in 1..Len(store[i].results) :
                /\ store[i].results[j].step_id = DEFAULT_ROADMAPS[store[i].domain][k]
                /\ store[i].results[j].passed = TRUE
                /\ store[i].results[j].score >= 12

\* two submissions that both read the fresh record have returned, the later
\* write has erased the first step's pass, and the second step is passed
C20_Witness ==
    /\ \A t \in Threads :
          /\ pc[t] = "ret" /\ req[t].op = "submit" /\ resp[t].code = 200
          /\ prog[t].id = 1 /\ prog[t].doc.results = <<>>
          /\ req[t].passed
    /\ returned[1] = 2
    /\ store[1].steps_status = <<"unlocked", "passed", "unlocked">>
    /\ \E j \in 1..2 : store[1].results[j].step_id = "html-css"

====
